---- MODULE Spec2Model ----
(***************************************************************************)
(* Model of modules/ximgproc/src/adaptive_manifold_filter_n.cpp:           *)
(* the class AdaptiveManifoldFilterN (filter, initBuffers,                 *)
(* initSrcAndJoint, buildManifoldsAndPerformFiltering, compute_w_k,        *)
(* computeClusters, computeEta, gatherResult, collectGarbage).             *)
(*                                                                         *)
(* Numbers.  A float is modelled by a fixed-point integer: the float v is  *)
(* the integer v * FxOne, products are rescaled and rounded to nearest.    *)
(* A plane (single-channel Mat) is a sequence of rows, a row a sequence of *)
(* values; the released Mat is the empty sequence; a vector<Mat> is a      *)
(* sequence of planes.  sigma_s is held in units of 1/SigmaSDen and        *)
(* sigma_r in units of 1/SigmaRDen.                                        *)
(***************************************************************************)
EXTENDS Integers, Sequences, FiniteSets, TLC

\* ---------------------------------------------------------------- bounds
ImgW == 2
ImgH == 2
MaxCalls == 2
FxOne == 8
SigmaSDen == 4
SigmaRDen == 1000

\* ------------------------------------------------------- integer helpers
Max2(a, b) == IF a >= b THEN a ELSE b
Min2(a, b) == IF a <= b THEN a ELSE b
Abs(a) == IF a < 0 THEN -a ELSE a

\* F(1) + ... + F(n)
RECURSIVE SumTo(_, _)
SumTo(F(_), n) == IF n <= 0 THEN 0 ELSE SumTo(F, n - 1) + F(n)

\* ceil(n / d) for d > 0
CeilDiv(n, d) == -((-n) \div d)

\* n / d rounded to nearest, halves up, for d > 0 (float rounding of a quotient)
RoundDiv(n, d) == (2 * n + d) \div (2 * d)

\* cvRound(n / d): round to nearest, halves to even
cvRound(n, d) ==
    LET q == n \div d
        r == n % d
    IN  IF 2 * r < d THEN q
        ELSE IF 2 * r > d THEN q + 1
        ELSE IF q % 2 = 0 THEN q ELSE q + 1

RECURSIVE Pow2(_)
Pow2(k) == IF k <= 0 THEN 1 ELSE 2 * Pow2(k - 1)

\* floor(Log2(n / d)) for n >= d > 0: the largest k with 2^k * d <= n
RECURSIVE FloorLog2From(_, _, _)
FloorLog2From(n, d, k) == IF 2 * Pow2(k) * d > n THEN k ELSE FloorLog2From(n, d, k + 1)

Log2Floor(n, d) == FloorLog2From(n, d, 0)

\* floor_to_power_of_two(n / d) followed by max(1.0, .): below 1 the power of
\* two is a fraction and the max gives 1
floor_to_power_of_two(n, d) == IF n < d THEN 1 ELSE Pow2(Log2Floor(n, d))

\* floor(sqrt(n)) by bisection on lo..hi
RECURSIVE ISqrtIn(_, _, _)
ISqrtIn(n, lo, hi) ==
    IF lo >= hi THEN lo
    ELSE LET mid == (lo + hi + 1) \div 2
         IN  IF mid * mid <= n THEN ISqrtIn(n, mid, hi) ELSE ISqrtIn(n, lo, mid - 1)

ISqrt(n) == IF n <= 0 THEN 0 ELSE ISqrtIn(n, 0, Min2(n, 46340))

\* --------------------------------------------------- fixed-point floats
FxMul(a, b) == RoundDiv(a * b, FxOne)

\* cv::divide: a quotient whose divisor is zero is zero
FxDiv(a, b) == IF b = 0 THEN 0 ELSE IF b > 0 THEN RoundDiv(a * FxOne, b) ELSE -RoundDiv(a * FxOne, -b)

\* exp(-x) for x >= 0 in fixed point: FxOne * (1 - 1/FxOne)^x carried at the
\* resolution FxOne^2, zero from 3 * FxOne on; exp of a positive x is not needed
RECURSIVE ExpNegHi(_)
ExpNegHi(x) == IF x <= 0 THEN FxOne * FxOne ELSE (ExpNegHi(x - 1) * (FxOne - 1)) \div FxOne

ExpNegFx(x) == IF x >= 3 * FxOne THEN 0 ELSE RoundDiv(ExpNegHi(x), FxOne)

Sqrt2Fx == ISqrt(2 * FxOne * FxOne)

\* ------------------------------------------------------------- planes
NoMat == << >>

\* a release() that gives nothing up
releaseKeeps(m) == m

\* Mat::release() and vector<Mat>::clear(): the Mat, or every Mat of the
\* vector, is given up
release(m) == NoMat

clear(v) == << >>

Width(p) == IF Len(p) = 0 THEN 0 ELSE Len(p[1])
Height(p) == Len(p)
SizeOf(p) == << Width(p), Height(p) >>
ConstPlane(sz, v) == [y \in 1..sz[2] |-> [x \in 1..sz[1] |-> v]]
PMap2(a, b, Op(_, _)) == [y \in 1..Len(a) |-> [x \in 1..Len(a[y]) |-> Op(a[y][x], b[y][x])]]
PMap1(a, Op(_)) == [y \in 1..Len(a) |-> [x \in 1..Len(a[y]) |-> Op(a[y][x])]]
Transpose(p) == [x \in 1..Width(p) |-> [y \in 1..Height(p) |-> p[y][x]]]
Reverse(s) == [i \in 1..Len(s) |-> s[Len(s) + 1 - i]]
PAdd(a, b) == [y \in 1..Len(a) |-> [x \in 1..Len(a[y]) |-> a[y][x] + b[y][x]]]
PSub(a, b) == [y \in 1..Len(a) |-> [x \in 1..Len(a[y]) |-> a[y][x] - b[y][x]]]
PMul(a, b) == [y \in 1..Len(a) |-> [x \in 1..Len(a[y]) |-> FxMul(a[y][x], b[y][x])]]
PDiv(a, b) == [y \in 1..Len(a) |-> [x \in 1..Len(a[y]) |-> FxDiv(a[y][x], b[y][x])]]

\* -------------------------------------------------------------- resize
\* cv::resize, bilinear, of one row to dw samples: sample dx is read at the
\* source coordinate (dx + 0.5) * sw / dw - 0.5, clamped to the row
ResizeRow(row, dw) ==
    LET sw == Len(row)
        den == 2 * dw
    IN  [i \in 1..dw |->
            LET n == (2 * (i - 1) + 1) * sw - dw
                sx == n \div den
                r == n % den
            IN  IF n < 0 THEN row[1]
                ELSE IF sx >= sw - 1 THEN row[sw]
                ELSE RoundDiv((den - r) * row[sx + 1] + r * row[sx + 2], den)]

Resize(p, sz) ==
    IF Len(p) = 0 THEN NoMat
    ELSE LET horiz == [y \in 1..Len(p) |-> ResizeRow(p[y], sz[1])]
             cols == Transpose(horiz)
         IN  Transpose([x \in 1..sz[1] |-> ResizeRow(cols[x], sz[2])])

\* -------------------------------------------------- recursive filters
\* forward sweep y[0] = x[0], y[i] = x[i] + a[i-1] * (y[i-1] - x[i]); a[i] is
\* the feedback coefficient of the edge between samples i and i+1
RECURSIVE SweepFwd(_, _, _)
SweepFwd(x, a, n) ==
    IF n = 0 THEN << >>
    ELSE IF n = 1 THEN << x[1] >>
    ELSE LET p == SweepFwd(x, a, n - 1)
         IN  Append(p, x[n] + FxMul(a[n - 1], p[n - 1] - x[n]))

\* the backward sweep y[i] = y[i] + a[i] * (y[i+1] - y[i]) is the forward one
\* on the reversed row
SweepBoth(x, a) ==
    LET f == SweepFwd(x, a, Len(x))
    IN  Reverse(SweepFwd(Reverse(f), Reverse(a), Len(f)))

\* a = exp(-sqrt(2) / sigma), sigma = sn / sd
FeedbackCoef(sn, sd) == ExpNegFx(RoundDiv(Sqrt2Fx * sd, sn))

h_filter(src, sn, sd) ==
    LET a == FeedbackCoef(sn, sd)
        rows == [y \in 1..Len(src) |-> SweepBoth(src[y], [i \in 1..(Len(src[y]) - 1) |-> a])]
        cols == Transpose(rows)
    IN  Transpose([x \in 1..Len(cols) |-> SweepBoth(cols[x], [i \in 1..(Len(cols[x]) - 1) |-> a])])

\* sum over the channels of the squared difference of two vectors of planes
\* (sqr_dif for channel 0, add_sqr_dif for the others)
RECURSIVE SumSqrDif(_, _, _)
SumSqrDif(as, bs, n) ==
    IF n = 0 THEN ConstPlane(SizeOf(as[1]), 0)
    ELSE PAdd(SumSqrDif(as, bs, n - 1), PMap1(PSub(as[n], bs[n]), LAMBDA d : FxMul(d, d)))

\* one entry of the domain-transform tables:
\* exp(lnAlpha * sqrt(1 + (ss/sr)^2 * d2)), lnAlpha = -sqrt(2)/ss,
\* ss = sigma_s / df = ssn / ssd, sr = sigma_r / sqrt(2), sigma_r = srn / SigmaRDen;
\* ss / sigma_r is cut at 1000, far past the point where the weight is 0
DTWeight(d2, ssn, ssd, srn) ==
    LET ratio == Min2((ssn * SigmaRDen) \div (ssd * srn), 1000)
        root == ISqrt((FxOne + 2 * ratio * ratio * d2) * FxOne)
    IN  ExpNegFx(RoundDiv(Sqrt2Fx * root * ssd, FxOne * ssn))

computeDTHor(cn, ssn, ssd, srn) ==
    LET h == Height(cn[1])
        w == Width(cn[1])
    IN  [y \in 1..h |-> [x \in 1..(w - 1) |->
            LET Term(c) == FxMul(cn[c][y][x] - cn[c][y][x + 1], cn[c][y][x] - cn[c][y][x + 1])
            IN  DTWeight(SumTo(Term, Len(cn)), ssn, ssd, srn)]]

computeDTVer(cn, ssn, ssd, srn) ==
    LET h == Height(cn[1])
        w == Width(cn[1])
    IN  [y \in 1..(h - 1) |-> [x \in 1..w |->
            LET Term(c) == FxMul(cn[c][y][x] - cn[c][y + 1][x], cn[c][y][x] - cn[c][y + 1][x])
            IN  DTWeight(SumTo(Term, Len(cn)), ssn, ssd, srn)]]

\* DTFilterRF with one iteration: a horizontal forward/backward sweep of every
\* row with the weights adth, then a vertical one of every column with adtv
DTFilterRF(p, adth, adtv) ==
    LET rows == [y \in 1..Len(p) |-> SweepBoth(p[y], adth[y])]
        cols == Transpose(rows)
        wv == Transpose(adtv)
    IN  Transpose([x \in 1..Len(cols) |->
            SweepBoth(cols[x], IF Len(cols[x]) <= 1 THEN << >> ELSE wv[x])])

\* ------------------------------------------------------ images (inputs)
\* A Mat handed to filter(): empty or not, its depth, its size << w, h >> and its
\* channels.  An integer depth holds raw integers, a float depth fixed-point
\* floats.
IsFloatDepth(depth) == depth \in {"32F", "64F"}
DepthMax(depth) == IF depth = "8U" THEN 255 ELSE IF depth = "16U" THEN 65535 ELSE FxOne

\* grey level 0..2 of the pixel (x, y) of a test pattern on a w-wide image
Level(pat, x, y, w) ==
    CASE pat = "const" -> 2
      [] pat = "step" -> IF 2 * x <= w THEN 0 ELSE 2
      [] pat = "checker" -> 2 * ((x + y) % 2)
      [] pat = "ramp" -> (x + 2 * y) % 3
      [] OTHER -> IF x = 1 /\ y = 1 THEN 2 ELSE 0

MkMat(depth, sz, pats) ==
    [empty |-> FALSE, depth |-> depth, size |-> sz,
     ch |-> [c \in 1..Len(pats) |->
                [y \in 1..sz[2] |-> [x \in 1..sz[1] |->
                    (Level(pats[c], x, y, sz[1]) * DepthMax(depth)) \div 2]]]]

EmptyMat == [empty |-> TRUE, depth |-> "8U", size |-> << 0, 0 >>, ch |-> << >>]

ImgSize == << ImgW, ImgH >>

\* the joint argument: absent (empty), the very object passed as src, or
\* another Mat
NoJoint == [kind |-> "none", mat |-> EmptyMat]
SameJoint == [kind |-> "same", mat |-> EmptyMat]
OtherJoint(mat) == [kind |-> "other", mat |-> mat]

\* the (src, joint) pairs a caller passes
CallInputs ==
    { << EmptyMat, NoJoint >>,
      << MkMat("8U", ImgSize, << "step" >>), NoJoint >>,
      << MkMat("32F", ImgSize, << "const" >>), SameJoint >>,
      << MkMat("8U", ImgSize, << "step" >>),
         OtherJoint(MkMat("16U", ImgSize, << "checker", "ramp" >>)) >>,
      << MkMat("8U", ImgSize, << "step" >>),
         OtherJoint(MkMat("64F", ImgSize, << "step" >>)) >>,
      << MkMat("32F", ImgSize, << "const" >>),
         OtherJoint(MkMat("8U", << ImgW + 1, ImgH >>, << "step" >>)) >> }

\* ------------------------------------------------------- configuration
\* the members sigma_s_, sigma_r_, tree_height_, num_pca_iterations_,
\* adjust_outliers_, useRNG
MkCfg(ss, sr, th, pca, adj, rng) ==
    [sigma_s |-> ss, sigma_r |-> sr, tree_height |-> th, num_pca_iterations |-> pca,
     adjust_outliers |-> adj, useRNG |-> rng]

\* the constructor: sigma_s 16, sigma_r 0.2, tree_height -1, one PCA
\* iteration, no outlier adjustment, random initial vector
DefaultCfg == MkCfg(16 * SigmaSDen, SigmaRDen \div 5, -1, 1, FALSE, TRUE)

\* configurations a caller may set
Configs ==
    { MkCfg(SigmaSDen \div 2, SigmaRDen \div 5, -1, 1, FALSE, TRUE),
      MkCfg(2 * SigmaSDen, 0, 2, 1, FALSE, FALSE),
      MkCfg(2 * SigmaSDen, SigmaRDen + 1, 2, 1, FALSE, FALSE),
      MkCfg(SigmaSDen + 1, SigmaRDen \div 2, -1, 0, TRUE, FALSE),
      MkCfg(2 * SigmaSDen, SigmaRDen \div 2, 1, 1, FALSE, FALSE),
      MkCfg(8 * SigmaSDen, SigmaRDen \div 2, 0, 2, FALSE, TRUE),
      MkCfg(4 * SigmaSDen, SigmaRDen, 3, 1, TRUE, TRUE) }

ValidSigmas(c) == c.sigma_s >= SigmaSDen /\ c.sigma_r > 0 /\ c.sigma_r <= SigmaRDen

\* ------------------------------------------------ parameter resolution
\* computeManifoldTreeHeight without its max(2, .)
computeManifoldTreeHeightNoClamp(sigma_s, sigma_r) ==
    CeilDiv((Log2Floor(sigma_s, SigmaSDen) - 1) * (SigmaRDen - sigma_r), SigmaRDen)

\* Hs = floor(log2(sigma_s)) - 1, Lr = 1 - sigma_r, max(2, ceil(Hs * Lr))
computeManifoldTreeHeight(sigma_s, sigma_r) ==
    LET Hs == Log2Floor(sigma_s, SigmaSDen) - 1
        LrNum == SigmaRDen - sigma_r
    IN  Max2(2, CeilDiv(Hs * LrNum, SigmaRDen))

EffectiveTreeHeight(c) ==
    IF c.tree_height <= 0 THEN computeManifoldTreeHeight(c.sigma_s, c.sigma_r) ELSE c.tree_height

\* 1 / getNormalizer(depth)
getNormalizer(depth) == IF depth = "8U" THEN 255 ELSE IF depth = "16U" THEN 65535 ELSE 1

\* df = max(1, floor_to_power_of_two(min(sigma_s / 4, 256 * sigma_r)))
getResizeRatio(c) ==
    IF c.sigma_s * SigmaRDen <= 256 * c.sigma_r * 4 * SigmaSDen
    THEN floor_to_power_of_two(c.sigma_s, 4 * SigmaSDen)
    ELSE floor_to_power_of_two(256 * c.sigma_r, SigmaRDen)

getSmallSize(c, size) ==
    LET df == getResizeRatio(c)
    IN  << cvRound(size[1], df), cvRound(size[2], df) >>

\* resize(src, dst, Size(), 1/df, 1/df, INTER_LINEAR)
downsample(c, p) ==
    LET df == getResizeRatio(c)
    IN  Resize(p, << cvRound(Width(p), df), cvRound(Height(p), df) >>)

downsampleAll(c, v) == [i \in 1..Len(v) |-> downsample(c, v[i])]

\* resize(src, dst, srcSize, 0, 0)
upsample(size, p) == Resize(p, size)

upsampleAll(size, v) == [i \in 1..Len(v) |-> upsample(size, v[i])]

\* Mat::create(size): the buffer and its contents are kept when the size is
\* already right, otherwise a new buffer is allocated
Create(m, size) == IF SizeOf(m) = size /\ Len(m) > 0 THEN m ELSE ConstPlane(size, 0)

\* split + convertTo(CV_32F): the channels of a Mat as float planes
SplitToFloat(mat) ==
    [c \in 1..Len(mat.ch) |->
        IF IsFloatDepth(mat.depth) THEN mat.ch[c] ELSE PMap1(mat.ch[c], LAMBDA v : v * FxOne)]

\* convertTo(CV_32F, getNormalizer(depth)) of float planes holding raw values
Normalized(planes, depth) ==
    [c \in 1..Len(planes) |-> PMap1(planes[c], LAMBDA v : RoundDiv(v, getNormalizer(depth)))]

\* ------------------------------------------------------------ the RNG
\* cv::RNG is a multiply-with-carry generator on a 64-bit state,
\* state = (state mod 2^32) * CV_RNG_COEFF + (state div 2^32); the model keeps
\* the recurrence on a state of two RngHalf-valued halves
RngHalf == 16
RngCoeff == 13
RngInit == RngHalf * RngHalf - 1
RngNext(state) == (state % RngHalf) * RngCoeff + (state \div RngHalf)

\* rnd.fill(initVec, RNG::UNIFORM, -0.5, 0.5) on n entries: the vector drawn
\* and the state left
RECURSIVE RngFill(_, _)
RngFill(state, n) ==
    IF n = 0 THEN [vec |-> << >>, state |-> state]
    ELSE LET r == RngFill(state, n - 1)
             s1 == RngNext(r.state)
         IN  [vec |-> Append(r.vec, (s1 % FxOne) - FxOne \div 2), state |-> s1]

\* rnd.state = (int64)(baseCoef * seedCoef), baseCoef = max(uint64) / 0xFFFF:
\* the largest state over the largest value of a quarter of its bits
RngSeed(seedCoef) ==
    LET baseCoef == (RngHalf * RngHalf - 1) \div (ISqrt(RngHalf) - 1)
    IN  (baseCoef * seedCoef) \div FxOne

\* the initial vector of the power iteration
InitVec(useRNG, state, n) ==
    IF useRNG THEN RngFill(state, n)
    ELSE [vec |-> [i \in 1..n |-> IF (i - 1) % 2 = 0 THEN FxOne \div 2 ELSE -(FxOne \div 2)],
          state |-> state]

\* the number of rnd.fill calls computeClusters makes
RngFillCalls(useRNG) == IF useRNG THEN 1 ELSE 0

\* ------------------------------------------------------ the filter object
\* the private members of AdaptiveManifoldFilterN
FreshObject ==
    [srcSize |-> << 0, 0 >>, smallSize |-> << 0, 0 >>, jointCnNum |-> 0, srcCnNum |-> 0,
     jointCn |-> << >>, srcCn |-> << >>, etaFull |-> << >>,
     sum_w_ki_Psi_blur_ |-> << >>, sum_w_ki_Psi_blur_0_ |-> NoMat,
     w_k |-> NoMat, Psi_splat_0_small |-> NoMat, Psi_splat_small |-> << >>,
     minDistToManifoldSquared |-> NoMat, curTreeHeight |-> 0,
     sigma_r_over_sqrt_2 |-> 0, rnd |-> RngInit]

\* vector<Mat>::resize(n): the first n entries kept, new entries empty Mats
VecResize(v, n) == [i \in 1..n |-> IF i <= Len(v) THEN v[i] ELSE NoMat]

\* the CV_Assert of initSrcAndJoint without its test of the depth
JointAcceptedAnyDepth(jointSize, jointDepth, srcSize) == jointSize = srcSize

\* does the joint argument pass the CV_Assert of initSrcAndJoint
JointAccepted(jointSize, jointDepth, srcSize) ==
    jointSize = srcSize /\ jointDepth \in {"8U", "16U", "32F"}

\* initSrcAndJoint: status "ok", "assert" (the CV_Assert on the joint failed)
\* or "ub" (an empty src: split leaves srcCn empty and srcCn[0] or
\* jointCn[0].at() is then read out of bounds)
initSrcAndJoint(o, c, src, joint) ==
    LET o1 == [o EXCEPT !.srcSize = src.size,
                        !.smallSize = getSmallSize(c, src.size),
                        !.srcCnNum = IF src.empty THEN 1 ELSE Len(src.ch),
                        !.srcCn = SplitToFloat(src)]
    IN  IF src.empty THEN [status |-> "ub", o |-> o1]
        ELSE IF joint.kind \in {"none", "same"}
        THEN [status |-> "ok",
              o |-> [o1 EXCEPT !.jointCnNum = o1.srcCnNum,
                               !.jointCn = IF src.depth = "32F" THEN o1.srcCn
                                           ELSE Normalized(o1.srcCn, src.depth)]]
        ELSE LET o2 == [o1 EXCEPT !.jointCn = joint.mat.ch,
                                  !.jointCnNum = Len(joint.mat.ch)]
             IN  IF ~JointAccepted(joint.mat.size, joint.mat.depth, o2.srcSize)
                 THEN [status |-> "assert", o |-> o2]
                 ELSE [status |-> "ok",
                       o |-> [o2 EXCEPT !.jointCn =
                                IF joint.mat.depth # "32F"
                                THEN Normalized(SplitToFloat(joint.mat), joint.mat.depth)
                                ELSE joint.mat.ch]]

\* Mat::zeros(srcSize, CV_32FC1)
ZeroPlane(size) == ConstPlane(size, 0)

\* an accumulator set up with create(), as the other buffers are: its
\* contents survive when the size is unchanged
KeepAccumulator(acc, size) == Create(acc, size)

\* acc = Mat::zeros(srcSize, CV_32FC1): whatever the accumulator held is
\* replaced by zeros
ZeroAccumulator(acc, size) == ZeroPlane(size)

initBuffers(o, c, src, joint) ==
    LET r == initSrcAndJoint(o, c, src, joint)
        o1 == r.o
    IN  IF r.status # "ok" THEN r
        ELSE [status |-> "ok",
              o |-> [o1 EXCEPT
                 !.jointCn = VecResize(o1.jointCn, o1.jointCnNum),
                 !.Psi_splat_small =
                     [i \in 1..o1.jointCnNum |->
                        Create(VecResize(o1.Psi_splat_small, o1.jointCnNum)[i], o1.smallSize)],
                 !.srcCn = VecResize(o1.srcCn, o1.srcCnNum),
                 !.sum_w_ki_Psi_blur_ =
                     [i \in 1..o1.srcCnNum |->
                        ZeroAccumulator(VecResize(o1.sum_w_ki_Psi_blur_, o1.srcCnNum)[i], o1.srcSize)],
                 !.sum_w_ki_Psi_blur_0_ = ZeroAccumulator(o1.sum_w_ki_Psi_blur_0_, o1.srcSize),
                 !.w_k = Create(o1.w_k, o1.srcSize),
                 !.Psi_splat_0_small = Create(o1.Psi_splat_0_small, o1.smallSize),
                 !.minDistToManifoldSquared =
                     IF c.adjust_outliers THEN Create(o1.minDistToManifoldSquared, o1.srcSize)
                     ELSE o1.minDistToManifoldSquared]]

\* Mat1b cluster0(srcSize, 0xFF)
FullMask(size) == ConstPlane(size, 255)

\* filter() up to the call of buildManifoldsAndPerformFiltering: status
\* "precondition" (the CV_Assert on the sigmas failed), "assert", "ub" or "ok"
\* with the root manifold eta0 and the root cluster cluster0
filterSetup(o, c, src, joint) ==
    IF ~ValidSigmas(c) THEN [status |-> "precondition", o |-> o, c |-> c]
    ELSE LET c1 == [c EXCEPT !.num_pca_iterations = Max2(1, c.num_pca_iterations)]
             r == initBuffers(o, c1, src, joint)
         IN  IF r.status # "ok" THEN [status |-> r.status, o |-> r.o, c |-> c1]
             ELSE LET o1 == r.o
                      seedCoef == o1.jointCn[1][(o1.srcSize[2] \div 2) + 1][(o1.srcSize[1] \div 2) + 1]
                  IN  [status |-> "ok", c |-> c1,
                       o |-> [o1 EXCEPT !.curTreeHeight = EffectiveTreeHeight(c1),
                                        !.sigma_r_over_sqrt_2 = c1.sigma_r,
                                        !.rnd = RngSeed(seedCoef)],
                       cluster0 |-> FullMask(o1.srcSize),
                       eta0 |-> [i \in 1..o1.jointCnNum |->
                                    h_filter(o1.jointCn[i], c1.sigma_s, SigmaSDen)]]

\* ------------------------------------------------- per-node computations
\* an update that takes the minimum at the root too
MinDistUpdateNoCopy(minDist, d2, curTreeLevel) ==
    [y \in 1..Len(d2) |-> [x \in 1..Len(d2[y]) |-> Min2(minDist[y][x], d2[y][x])]]

\* the update of minDistToManifoldSquared in compute_w_k: a copy of d2 at
\* the root (curTreeLevel = 1), the pixelwise minimum elsewhere
MinDistUpdate(minDist, d2, curTreeLevel) ==
    IF curTreeLevel # 1
    THEN [y \in 1..Len(d2) |-> [x \in 1..Len(d2[y]) |-> Min2(minDist[y][x], d2[y][x])]]
    ELSE d2

\* compute_w_k: d2 = sum_c (eta_c - joint_c)^2, w_k = exp(-0.5 * d2 / sigma^2)
\* with sigma = sigma_r_over_sqrt_2, and the new minDistToManifoldSquared
compute_w_k(o, c, etak, curTreeLevel) ==
    LET d2 == SumSqrDif(etak, o.jointCn, o.jointCnNum)
        sr == o.sigma_r_over_sqrt_2
    IN  [d2 |-> d2,
         w_k |-> PMap1(d2, LAMBDA d : ExpNegFx((d * SigmaRDen * SigmaRDen) \div (sr * sr))),
         minDist |-> IF c.adjust_outliers
                     THEN MinDistUpdate(o.minDistToManifoldSquared, d2, curTreeLevel)
                     ELSE o.minDistToManifoldSquared]

\* RFFilterPass: the edge tables from the (small) eta, then the
\* domain-transform filter on every splat plane and on the weight plane
RFFilterPass(joint, Psi_splat, Psi_splat_0, ssn, ssd, srn) ==
    LET adth == computeDTHor(joint, ssn, ssd, srn)
        adtv == computeDTVer(joint, ssn, ssd, srn)
    IN  [Psi |-> [cn \in 1..Len(Psi_splat) |-> DTFilterRF(Psi_splat[cn], adth, adtv)],
         Psi_0 |-> DTFilterRF(Psi_splat_0, adth, adtv)]

\* the pixels in the row-major order of difEtaSrc
PixelSeq(size) ==
    [k \in 1..(size[1] * size[2]) |-> << ((k - 1) % size[1]) + 1, ((k - 1) \div size[1]) + 1 >>]

\* dot product of the residual at pixel px with the vector v
Dot(X, px, v) ==
    LET Term(c) == v[c] * X[c][px[2]][px[1]]
    IN  SumTo(Term, Len(X))

\* one power iteration: dst = sum over the masked pixels of (X_p . dst) X_p
PowerIteration(X, mask, v, pixels) ==
    LET dots == [k \in 1..Len(pixels) |->
                    IF mask[pixels[k][2]][pixels[k][1]] # 0 THEN Dot(X, pixels[k], v) ELSE 0]
    IN  [c \in 1..Len(X) |->
            LET Term(k) == dots[k] * X[c][pixels[k][2]][pixels[k][1]]
            IN  SumTo(Term, Len(pixels))]

RECURSIVE PowerIterations(_, _, _, _, _)
PowerIterations(X, mask, v, pixels, n) ==
    IF n = 0 THEN v ELSE PowerIteration(X, mask, PowerIterations(X, mask, v, pixels, n - 1), pixels)

\* divide(dst, norm(dst), dst): the zero vector when the norm is zero,
\* otherwise the unit vector of dst.  Only the sign of a projection on the
\* result is ever read, so the unit vector is carried as dst, a positive
\* multiple of it.
NormalizeVec(v) == IF \A c \in 1..Len(v) : v[c] = 0 THEN [c \in 1..Len(v) |-> 0] ELSE v

computeEigenVector(X, mask, num_pca_iterations, rand_vec) ==
    NormalizeVec(PowerIterations(X, mask, rand_vec, PixelSeq(SizeOf(mask)), num_pca_iterations))

\* compare(difOreientation, 0, ., CMP_LT) and CMP_GE, each and-ed with the
\* parent cluster
\* a minus mask taken with CMP_LE
ClusterMinusOrEqual(o, cluster) == IF o <= 0 /\ cluster # 0 THEN 255 ELSE 0

ClusterMinus(o, cluster) == IF o < 0 /\ cluster # 0 THEN 255 ELSE 0

\* a plus mask taken with CMP_GT
ClusterPlusStrict(o, cluster) == IF o > 0 /\ cluster # 0 THEN 255 ELSE 0

ClusterPlus(o, cluster) == IF o >= 0 /\ cluster # 0 THEN 255 ELSE 0

\* computeClusters: the two child masks and the RNG state left
computeClusters(o, c, cluster) ==
    LET difEtaSrc == [i \in 1..o.jointCnNum |-> PSub(o.jointCn[i], o.etaFull[i])]
        init == InitVec(c.useRNG, o.rnd, o.jointCnNum)
        eigenVec == computeEigenVector(difEtaSrc, cluster, c.num_pca_iterations, init.vec)
        difOreientation ==
            [y \in 1..o.srcSize[2] |-> [x \in 1..o.srcSize[1] |-> Dot(difEtaSrc, << x, y >>, eigenVec)]]
    IN  [cluster_minus |-> PMap2(difOreientation, cluster, ClusterMinus),
         cluster_plus |-> PMap2(difOreientation, cluster, ClusterPlus),
         rnd |-> init.state,
         fills |-> RngFillCalls(c.useRNG),
         eigenVec |-> eigenVec,
         difOreientation |-> difOreientation]

\* computeEta: the child manifold on the small grid
computeEta(o, c, teta, cluster) ==
    LET tetaMasked == PMap2(teta, cluster, LAMBDA t, m : IF m # 0 THEN t ELSE 0)
        df == getResizeRatio(c)
        tetaMaskedBlur == h_filter(downsample(c, tetaMasked), c.sigma_s, SigmaSDen * df)
    IN  [i \in 1..o.jointCnNum |->
            PDiv(h_filter(downsample(c, PMul(tetaMasked, o.jointCn[i])), c.sigma_s, SigmaSDen * df),
                 tetaMaskedBlur)]

\* a test that lets the nodes at the tree height split as well
BuildsChildrenAtHeight(treeLevel, curTreeHeight) == treeLevel <= curTreeHeight

\* does a node at treeLevel build new manifolds
BuildsChildren(treeLevel, curTreeHeight) == treeLevel < curTreeHeight

\* a split that reads w_k and etaFull as the node processed before left them
MembersAtSplitStale(entered, written) ==
    IF entered.etaFull = << >> THEN written
    ELSE [written EXCEPT !.w_k = entered.w_k, !.etaFull = entered.etaFull]

\* the members computeClusters, teta = 1 - w_k and computeEta read: they run
\* after the node wrote w_k and etaFull and before its first recursive call,
\* so they see the object as this node has written it, not as it entered
MembersAtSplit(entered, written) == written

\* buildManifoldsAndPerformFiltering without its two recursive calls: the
\* object after the node, the node's own eta and cluster as it leaves them,
\* and, below the tree height, the children's etas and clusters
processNode(o, c, eta, cluster, treeLevel) ==
    LET full == SizeOf(eta[1]) = o.srcSize
        etaFull == IF full THEN eta ELSE upsampleAll(o.srcSize, eta)
        wk == compute_w_k(o, c, etaFull, treeLevel)
        etaSmall == IF full THEN downsampleAll(c, eta) ELSE eta
        w_k == wk.w_k
        splat == [si \in 1..o.srcCnNum |-> downsample(c, PMul(o.srcCn[si], w_k))]
        splat_0 == downsample(c, w_k)
        df == getResizeRatio(c)
        blur == RFFilterPass(etaSmall, splat, splat_0, c.sigma_s, SigmaSDen * df, o.sigma_r_over_sqrt_2)
        term == [i \in 1..o.srcCnNum |-> PMul(upsample(o.srcSize, blur.Psi[i]), w_k)]
        term_0 == PMul(upsample(o.srcSize, blur.Psi_0), w_k)
        o1 == [o EXCEPT
                 !.w_k = w_k,
                 !.minDistToManifoldSquared = wk.minDist,
                 !.etaFull = etaFull,
                 !.Psi_splat_small = blur.Psi,
                 !.Psi_splat_0_small = blur.Psi_0,
                 !.sum_w_ki_Psi_blur_ =
                     [i \in 1..o.srcCnNum |-> PAdd(o.sum_w_ki_Psi_blur_[i], term[i])],
                 !.sum_w_ki_Psi_blur_0_ = PAdd(o.sum_w_ki_Psi_blur_0_, term_0)]
    IN  IF BuildsChildren(treeLevel, o.curTreeHeight)
        THEN LET os == MembersAtSplit(o, o1)
                 cl == computeClusters(os, c, cluster)
                 teta == PMap1(os.w_k, LAMBDA w : FxOne - w)
             IN  [o |-> [o1 EXCEPT !.rnd = cl.rnd],
                  d2 |-> wk.d2, term |-> term, term_0 |-> term_0,
                  split |-> TRUE,
                  fills |-> cl.fills,
                  difOreientation |-> cl.difOreientation,
                  eigenVec |-> cl.eigenVec,
                  eta |-> clear(etaSmall),
                  cluster |-> release(cluster),
                  cluster_minus |-> cl.cluster_minus,
                  cluster_plus |-> cl.cluster_plus,
                  eta_minus |-> computeEta(os, c, teta, cl.cluster_minus),
                  eta_plus |-> computeEta(os, c, teta, cl.cluster_plus)]
        ELSE [o |-> o1, d2 |-> wk.d2, term |-> term, term_0 |-> term_0,
              split |-> FALSE, fills |-> 0, difOreientation |-> NoMat,
              eigenVec |-> << >>,
              eta |-> etaSmall, cluster |-> cluster,
              cluster_minus |-> NoMat, cluster_plus |-> NoMat,
              eta_minus |-> << >>, eta_plus |-> << >>]

\* convertTo / the dtype of divide: a float value stored at the depth of src
ToDepth(v, depth) ==
    IF IsFloatDepth(depth) THEN v
    ELSE Max2(0, Min2(DepthMax(depth), RoundDiv(v, FxOne)))

\* gatherResult: the channels of dst and minDistToManifoldSquared as it is
\* left (overwritten by alpha when adjust_outliers_)
gatherResult(o, c, srcDepth) ==
    IF ~c.adjust_outliers
    THEN [dst |-> [i \in 1..o.srcCnNum |->
                     PMap1(PDiv(o.sum_w_ki_Psi_blur_[i], o.sum_w_ki_Psi_blur_0_),
                           LAMBDA v : ToDepth(v, srcDepth))],
          minDist |-> o.minDistToManifoldSquared]
    ELSE LET alpha == PMap1(o.minDistToManifoldSquared,
                            LAMBDA m : ExpNegFx((m * SigmaRDen * SigmaRDen) \div (2 * c.sigma_r * c.sigma_r)))
         IN  [dst |-> [i \in 1..o.srcCnNum |->
                         LET f == o.srcCn[i]
                             g == PDiv(o.sum_w_ki_Psi_blur_[i], o.sum_w_ki_Psi_blur_0_)
                         IN  PMap1(PAdd(PMul(alpha, PSub(g, f)), f), LAMBDA v : ToDepth(v, srcDepth))],
              minDist |-> alpha]

\* a collectGarbage that forgets w_k
collectGarbageKeepsW_k(o) ==
    [o EXCEPT !.srcCn = clear(@), !.jointCn = clear(@), !.etaFull = clear(@),
              !.sum_w_ki_Psi_blur_ = clear(@), !.Psi_splat_small = clear(@),
              !.sum_w_ki_Psi_blur_0_ = release(@),
              !.Psi_splat_0_small = release(@), !.minDistToManifoldSquared = release(@)]

\* collectGarbage: every vector cleared, every Mat released
collectGarbageObject(o) ==
    [o EXCEPT !.srcCn = clear(@), !.jointCn = clear(@), !.etaFull = clear(@),
              !.sum_w_ki_Psi_blur_ = clear(@), !.Psi_splat_small = clear(@),
              !.sum_w_ki_Psi_blur_0_ = release(@), !.w_k = release(@),
              !.Psi_splat_0_small = release(@), !.minDistToManifoldSquared = release(@)]

\* ------------------------------------------------------------ the state
VARIABLES
    cfg,        \* the configuration members of the filter object
    obj,        \* its private members
    pc,         \* "idle", "entry" (filter called), "run" (in the recursive driver),
                \* "gather" (driver returned), "dead" (the process crashed)
    args,       \* the arguments of the filter call: src, joint, and the
                \* configuration the call was made with
    stack,      \* the frames of buildManifoldsAndPerformFiltering, root first
    eta0,       \* filter()'s local eta0, the root frame's eta
    cluster0,   \* filter()'s local cluster0, the root frame's cluster
    dst,        \* the caller's output array
    ncalls,     \* the number of filter calls made on the object
    last,       \* how the last public operation ended
    visited     \* history: the nodes processed by the current call, in order

vars == << cfg, obj, pc, args, stack, eta0, cluster0, dst, ncalls, last, visited >>

NoDst == [depth |-> "none", ch |-> << >>]

NoArgs == [src |-> EmptyMat, joint |-> NoJoint, cfg |-> DefaultCfg]

Init ==
    /\ cfg = DefaultCfg
    /\ obj = FreshObject
    /\ pc = "idle"
    /\ args = NoArgs
    /\ stack = << >>
    /\ eta0 = << >>
    /\ cluster0 = NoMat
    /\ dst = NoDst
    /\ ncalls = 0
    /\ last = "none"
    /\ visited = << >>

\* Algorithm::set on the configuration members
Set(c) ==
    /\ pc = "idle"
    /\ ncalls < MaxCalls
    /\ c # cfg
    /\ cfg' = c
    /\ UNCHANGED << obj, pc, args, stack, eta0, cluster0, dst, ncalls, last, visited >>

\* cv::resize needs a non-empty destination: a caller passes a src that the
\* downsample ratio of the configuration leaves non-empty
Resizable(c, src) ==
    \/ ~ValidSigmas(c)
    \/ src.empty
    \/ getSmallSize(c, src.size)[1] * getSmallSize(c, src.size)[2] > 0

\* the caller enters filter(src, dst, joint)
Call(src, joint) ==
    /\ pc = "idle"
    /\ ncalls < MaxCalls
    /\ Resizable(cfg, src)
    /\ pc' = "entry"
    /\ ncalls' = ncalls + 1
    /\ args' = [src |-> src, joint |-> joint, cfg |-> cfg]
    /\ visited' = << >>
    /\ UNCHANGED << cfg, obj, stack, eta0, cluster0, dst, last >>

\* the two recursive calls the other way round
ChildOrderPlusFirst == << "plus", "minus" >>

\* the order of the two recursive calls
ChildOrder == << "minus", "plus" >>

NewFrame(path, side, level) ==
    [path |-> path, side |-> side, level |-> level, pc |-> "body",
     eta_minus |-> << >>, cluster_minus |-> NoMat, eta_plus |-> << >>, cluster_plus |-> NoMat]

\* filter() from its first line to the call of the driver on the root
FilterEntry ==
    /\ pc = "entry"
    /\ \E r \in {filterSetup(obj, cfg, args.src, args.joint)} :
           /\ obj' = r.o
           /\ cfg' = r.c
           /\ IF r.status = "ok"
              THEN /\ pc' = "run"
                   /\ eta0' = r.eta0
                   /\ cluster0' = r.cluster0
                   /\ stack' = << NewFrame(<< >>, "root", 1) >>
                   /\ last' = last
              ELSE /\ UNCHANGED << eta0, cluster0, stack >>
                   /\ IF r.status = "ub"
                      THEN \E how \in {"ub_error", "crash"} :
                              /\ last' = how
                              /\ pc' = IF how = "crash" THEN "dead" ELSE "idle"
                      ELSE /\ last' = r.status
                           /\ pc' = "idle"
    /\ UNCHANGED << args, dst, ncalls, visited >>

Top == stack[Len(stack)]

\* the eta and cluster a frame was called with are references to locals of
\* its caller
NodeEta ==
    IF Len(stack) = 1 THEN eta0
    ELSE IF Top.side = "minus" THEN stack[Len(stack) - 1].eta_minus
    ELSE stack[Len(stack) - 1].eta_plus

NodeCluster ==
    IF Len(stack) = 1 THEN cluster0
    ELSE IF Top.side = "minus" THEN stack[Len(stack) - 1].cluster_minus
    ELSE stack[Len(stack) - 1].cluster_plus

\* the body of buildManifoldsAndPerformFiltering up to its recursive calls
NodeBody ==
    /\ pc = "run"
    /\ Len(stack) > 0
    /\ Top.pc = "body"
    /\ \E r \in {processNode(obj, cfg, NodeEta, NodeCluster, Top.level)} :
       LET n == Len(stack)
           me == [Top EXCEPT !.pc = IF r.split THEN "recurse1" ELSE "return",
                             !.eta_minus = r.eta_minus, !.cluster_minus = r.cluster_minus,
                             !.eta_plus = r.eta_plus, !.cluster_plus = r.cluster_plus]
       IN  /\ obj' = r.o
           /\ IF n = 1
              THEN /\ eta0' = r.eta
                   /\ cluster0' = r.cluster
                   /\ stack' = << me >>
              ELSE /\ UNCHANGED << eta0, cluster0 >>
                   /\ stack' = [stack EXCEPT
                         ![n] = me,
                         ![n - 1] = IF Top.side = "minus"
                                    THEN [@ EXCEPT !.eta_minus = r.eta, !.cluster_minus = r.cluster]
                                    ELSE [@ EXCEPT !.eta_plus = r.eta, !.cluster_plus = r.cluster]]
           /\ visited' = Append(visited,
                 [path |-> Top.path, level |-> Top.level, cluster |-> NodeCluster,
                  split |-> r.split, cluster_minus |-> r.cluster_minus,
                  cluster_plus |-> r.cluster_plus, difOreientation |-> r.difOreientation,
                  eigenVec |-> r.eigenVec,
                  d2 |-> r.d2, minDist |-> r.o.minDistToManifoldSquared,
                  term |-> r.term, term_0 |-> r.term_0,
                  fills |-> r.fills, rnd_in |-> obj.rnd, rnd_out |-> r.o.rnd,
                  eta |-> NodeEta, w_k |-> r.o.w_k, etaFull |-> r.o.etaFull,
                  Psi_blur |-> r.o.Psi_splat_small, Psi_blur_0 |-> r.o.Psi_splat_0_small,
                  eta_minus |-> r.eta_minus, eta_plus |-> r.eta_plus])
    /\ UNCHANGED << cfg, pc, args, dst, ncalls, last >>

\* the first and the second recursive call of a node
Recurse(k) ==
    /\ pc = "run"
    /\ Len(stack) > 0
    /\ Top.pc = (IF k = 1 THEN "recurse1" ELSE "recurse2")
    /\ stack' = Append([stack EXCEPT ![Len(stack)].pc = IF k = 1 THEN "recurse2" ELSE "return"],
                       NewFrame(Append(Top.path, ChildOrder[k]), ChildOrder[k], Top.level + 1))
    /\ UNCHANGED << cfg, obj, pc, args, eta0, cluster0, dst, ncalls, last, visited >>

RecurseFirst == Recurse(1)

RecurseSecond == Recurse(2)

\* a frame returns: its locals are destroyed
Return ==
    /\ pc = "run"
    /\ Len(stack) > 0
    /\ Top.pc = "return"
    /\ stack' = SubSeq(stack, 1, Len(stack) - 1)
    /\ pc' = IF Len(stack) = 1 THEN "gather" ELSE "run"
    /\ UNCHANGED << cfg, obj, args, eta0, cluster0, dst, ncalls, last, visited >>

\* gatherResult and the return of filter(): eta0 and cluster0 are destroyed
Gather ==
    /\ pc = "gather"
    /\ \E r \in {gatherResult(obj, cfg, args.src.depth)} :
           /\ dst' = [depth |-> args.src.depth, ch |-> r.dst]
           /\ obj' = [obj EXCEPT !.minDistToManifoldSquared = r.minDist]
    /\ eta0' = << >>
    /\ cluster0' = NoMat
    /\ pc' = "idle"
    /\ last' = "ok"
    /\ UNCHANGED << cfg, args, stack, ncalls, visited >>

CollectGarbage ==
    /\ pc = "idle"
    /\ obj' = collectGarbageObject(obj)
    /\ last' = "collected"
    /\ UNCHANGED << cfg, pc, args, stack, eta0, cluster0, dst, ncalls, visited >>

Next ==
    \/ \E c \in Configs \cup {DefaultCfg} : Set(c)
    \/ \E in \in CallInputs : Call(in[1], in[2])
    \/ FilterEntry
    \/ NodeBody
    \/ RecurseFirst
    \/ RecurseSecond
    \/ Return
    \/ Gather
    \/ CollectGarbage

Spec == Init /\ [][Next]_vars

\* ------------------------------------------- the tree height on its own
MaxSigmaS == 64
MaxLog == 8

HeightConfigs ==
    { MkCfg(ss, sr, th, 1, FALSE, TRUE) :
        ss \in SigmaSDen..(MaxSigmaS * SigmaSDen),
        sr \in {1, SigmaRDen \div 10, SigmaRDen \div 5, SigmaRDen \div 4, SigmaRDen \div 2,
                (3 * SigmaRDen) \div 4, SigmaRDen - 1, SigmaRDen},
        th \in {-1, 0, 1, 5} }

HeightInit ==
    /\ cfg \in HeightConfigs
    /\ obj = FreshObject
    /\ pc = "idle"
    /\ args = NoArgs
    /\ stack = << >>
    /\ eta0 = << >>
    /\ cluster0 = NoMat
    /\ dst = NoDst
    /\ ncalls = 0
    /\ last = "none"
    /\ visited = << >>

\* the line of filter() that resolves curTreeHeight
ResolveHeight ==
    /\ pc = "idle"
    /\ obj' = [obj EXCEPT !.curTreeHeight = EffectiveTreeHeight(cfg)]
    /\ pc' = "resolved"
    /\ UNCHANGED << cfg, args, stack, eta0, cluster0, dst, ncalls, last, visited >>

HeightNext == ResolveHeight

HeightSpec == HeightInit /\ [][HeightNext]_vars

\* ---------------------------------------------------------- properties
InCall == pc \in {"run", "gather"}

Parent == stack[Len(stack) - 1]

Rows == 1..obj.srcSize[2]

Cols == 1..obj.srcSize[1]

\* C1: a filter call with sigma_s < 1, sigma_r <= 0, sigma_r > 1 or an empty
\* src fails with a precondition violation, and no private member of the
\* object is written
C1_InvalidCallFailsBeforeAnyWrite ==
    [][(pc = "entry" /\ (~ValidSigmas(cfg) \/ args.src.empty))
        => (pc' = "idle" /\ last' = "precondition" /\ obj' = obj)]_vars

\* an empty src given to an object that holds the buffers of an earlier call:
\* the call ended in the out-of-bounds read, with srcCn cleared
C1_EmptySrcOnUsedObject ==
    /\ pc = "idle"
    /\ args.src.empty
    /\ ValidSigmas(args.cfg)
    /\ last = "ub_error"
    /\ obj.srcCn = << >>
    /\ obj.w_k # NoMat

\* the call is given another Mat as joint, of the wrong size or depth
JointMismatch ==
    /\ ValidSigmas(cfg)
    /\ ~args.src.empty
    /\ args.joint.kind = "other"
    /\ \/ args.joint.mat.size # args.src.size
       \/ args.joint.mat.depth \notin {"8U", "16U", "32F"}

\* C2 as stated: a joint of another size or of an unsupported depth makes the
\* call fail before a src or joint channel buffer is created or converted, no
\* node is processed and dst is not written
C2_MismatchFailsBeforeChannels ==
    [][(pc = "entry" /\ JointMismatch)
        => /\ pc' = "idle"
           /\ last' = "assert"
           /\ obj'.srcCn = obj.srcCn
           /\ obj'.jointCn = obj.jointCn
           /\ visited' = << >>
           /\ dst' = dst]_vars

\* C2 amended: such a call fails in initSrcAndJoint after srcSize, smallSize
\* and the channel counts are written, the src channels are split and
\* converted to float and the joint channels are split (not converted);
\* every other buffer is untouched, no node is processed and dst is not
\* written
C2_MismatchFailsAfterSplit ==
    [][(pc = "entry" /\ JointMismatch)
        => /\ pc' = "idle"
           /\ last' = "assert"
           /\ obj'.srcSize = args.src.size
           /\ obj'.srcCnNum = Len(args.src.ch)
           /\ obj'.srcCn = SplitToFloat(args.src)
           /\ obj'.jointCn = args.joint.mat.ch
           /\ obj'.jointCnNum = Len(args.joint.mat.ch)
           /\ \A b \in {"etaFull", "w_k", "Psi_splat_small", "Psi_splat_0_small",
                        "sum_w_ki_Psi_blur_", "sum_w_ki_Psi_blur_0_",
                        "minDistToManifoldSquared", "curTreeHeight", "rnd"} : obj'[b] = obj[b]
           /\ stack' = << >>
           /\ visited' = << >>
           /\ dst' = dst]_vars

\* the first call on an object failed on its joint: the channels are there,
\* nothing else is
C2_FailedOnJoint ==
    /\ pc = "idle"
    /\ last = "assert"
    /\ ncalls = 1
    /\ args.joint.kind = "other"
    /\ obj.srcCn # << >>
    /\ obj.jointCn # << >>
    /\ obj.w_k = NoMat
    /\ dst = NoDst

\* the visited nodes of one level
AtLevel(l) == {i \in 1..Len(visited) : visited[i].level = l}

\* C3: at every node below the tree height cluster_minus and cluster_plus are
\* disjoint, their union is the node's cluster and a pixel of the cluster
\* with projection 0 is in cluster_plus; the masks of the nodes of one level
\* are pairwise disjoint, and once the level is complete their union is the
\* all-ones root mask
C3_Partition ==
    InCall =>
        /\ \A i \in 1..Len(visited) : \A y \in Rows, x \in Cols :
              visited[i].split =>
                 /\ ~(visited[i].cluster_minus[y][x] # 0 /\ visited[i].cluster_plus[y][x] # 0)
                 /\ (visited[i].cluster_minus[y][x] # 0 \/ visited[i].cluster_plus[y][x] # 0)
                       <=> (visited[i].cluster[y][x] # 0)
                 /\ (visited[i].cluster[y][x] # 0 /\ visited[i].difOreientation[y][x] = 0)
                       => visited[i].cluster_plus[y][x] # 0
        /\ \A i \in 1..Len(visited) : visited[i].level = 1 => visited[i].cluster = FullMask(obj.srcSize)
        /\ \A i, j \in 1..Len(visited) : \A y \in Rows, x \in Cols :
              (i < j /\ visited[i].level = visited[j].level)
                 => ~(visited[i].cluster[y][x] # 0 /\ visited[j].cluster[y][x] # 0)
        /\ \A l \in 1..obj.curTreeHeight :
              Cardinality(AtLevel(l)) = Pow2(l - 1)
                 => \A y \in Rows, x \in Cols : \E i \in AtLevel(l) : visited[i].cluster[y][x] # 0

\* a finished tree of height 3 in which some node split its cluster into two
\* non-empty parts
C3_ProperSplit ==
    /\ pc = "gather"
    /\ obj.curTreeHeight = 3
    /\ \E i \in 1..Len(visited) :
          /\ visited[i].split
          /\ \E y \in Rows, x \in Cols : visited[i].cluster_minus[y][x] # 0
          /\ \E y \in Rows, x \in Cols : visited[i].cluster_plus[y][x] # 0

\* the whole subtree of a node, minus child first, on the object o
RECURSIVE RunSubtree(_, _, _, _, _)
RunSubtree(o, c, eta, cluster, treeLevel) ==
    LET Below(r) ==
            IF r.split
            THEN RunSubtree(RunSubtree(r.o, c, r.eta_minus, r.cluster_minus, treeLevel + 1),
                            c, r.eta_plus, r.cluster_plus, treeLevel + 1)
            ELSE r.o
    IN  Below(processNode(o, c, eta, cluster, treeLevel))

\* the channels filter() writes to dst when called on a newly constructed
\* object
FilterOnFresh(c, src, joint) ==
    LET Run(s) == gatherResult(RunSubtree(s.o, s.c, s.eta0, s.cluster0, 1), s.c, src.depth).dst
    IN  Run(filterSetup(FreshObject, c, src, joint))

C5_EffectiveTreeHeight ==
    pc = "resolved" =>
        IF cfg.tree_height > 0 THEN obj.curTreeHeight = cfg.tree_height
        ELSE /\ obj.curTreeHeight >= 2
             /\ cfg.sigma_s < 2 * SigmaSDen => obj.curTreeHeight = 2
             /\ \E fl \in 0..MaxLog, n \in (-MaxLog)..MaxLog :
                   /\ Pow2(fl) * SigmaSDen <= cfg.sigma_s
                   /\ cfg.sigma_s < Pow2(fl + 1) * SigmaSDen
                   /\ n * SigmaRDen >= (fl - 1) * (SigmaRDen - cfg.sigma_r)
                   /\ (n - 1) * SigmaRDen < (fl - 1) * (SigmaRDen - cfg.sigma_r)
                   /\ obj.curTreeHeight >= n
                   /\ obj.curTreeHeight \in {2, n}

\* an automatic height above the clamp, from a sigma_r strictly inside (0, 1)
C5_AutomaticHeightFour ==
    /\ pc = "resolved"
    /\ cfg.tree_height <= 0
    /\ cfg.sigma_r > 1
    /\ cfg.sigma_r < SigmaRDen
    /\ obj.curTreeHeight = 4

TreePaths(height) == UNION {[1..n -> {"minus", "plus"}] : n \in 0..(height - 1)}

\* the sum of the terms the first n visited nodes added to an accumulator
RECURSIVE TermSum(_, _)
TermSum(Term(_), n) ==
    IF n = 0 THEN ZeroPlane(obj.srcSize) ELSE PAdd(TermSum(Term, n - 1), Term(n))

C7_Shape ==
    /\ InCall =>
          /\ \A i \in 1..Len(visited) :
                /\ visited[i].level = Len(visited[i].path) + 1
                /\ visited[i].level <= obj.curTreeHeight
                /\ visited[i].split <=> visited[i].level < obj.curTreeHeight
          /\ \A i, j \in 1..Len(visited) : i # j => visited[i].path # visited[j].path
          /\ obj.sum_w_ki_Psi_blur_0_ = TermSum(LAMBDA k : visited[k].term_0, Len(visited))
          /\ \A c \in 1..obj.srcCnNum :
                obj.sum_w_ki_Psi_blur_[c] = TermSum(LAMBDA k : visited[k].term[c], Len(visited))
    /\ pc = "run" => \A k \in 1..Len(stack) : stack[k].level = k /\ k <= obj.curTreeHeight
    /\ pc = "gather" =>
          /\ Len(visited) = Pow2(obj.curTreeHeight) - 1
          /\ {visited[i].path : i \in 1..Len(visited)} = TreePaths(obj.curTreeHeight)

\* the steps a subtree rooted at the given level takes: the body and the
\* return of its root and, below the height, the two calls and the two
\* subtrees of the children
RECURSIVE SubtreeSteps(_, _)
SubtreeSteps(level, height) ==
    IF level < height THEN 4 + 2 * SubtreeSteps(level + 1, height) ELSE 2

\* the steps a frame has left, those of a child on the stack not counted
FrameSteps(f, height) ==
    CASE f.pc = "body" -> SubtreeSteps(f.level, height)
      [] f.pc = "recurse1" -> SubtreeSteps(f.level, height) - 1
      [] f.pc = "recurse2" -> 2 + SubtreeSteps(f.level + 1, height)
      [] OTHER -> 1

\* the steps the driver has left
StepsLeft == SumTo(LAMBDA k : FrameSteps(stack[k], obj.curTreeHeight), Len(stack))

\* C7: the driver terminates, whatever the clusters hold: it starts with
\* 3 * 2^H - 4 steps left, while it runs its top frame is at one of the four
\* positions a step leaves from and every step leaves one step less, 0 when
\* it returns; it has then processed the 2^H - 1 nodes of the full binary
\* tree of height H, each once, none above level H, and each processed node
\* has added one term to sum_w_ki_Psi_blur_0_ and one to every
\* sum_w_ki_Psi_blur_[c]
C7_TerminationAndTreeShape ==
    /\ []C7_Shape
    /\ [](pc = "run" =>
            /\ Len(stack) > 0
            /\ Top.pc \in {"body", "recurse1", "recurse2", "return"}
            /\ StepsLeft > 0
            /\ visited = << >> => StepsLeft = 3 * Pow2(obj.curTreeHeight) - 4)
    /\ [][pc = "run" => (StepsLeft' = StepsLeft - 1 /\ (pc' = "gather" <=> StepsLeft' = 0))]_vars

\* a tree of height 3 was traversed to the end and one of its inner nodes
\* had an empty cluster
C7_FullTreeWithEmptyCluster ==
    /\ pc = "gather"
    /\ obj.curTreeHeight = 3
    /\ Len(visited) = 7
    /\ \E i \in 1..Len(visited) :
          /\ visited[i].split
          /\ \A y \in Rows, x \in Cols : visited[i].cluster[y][x] = 0

\* the per-call buffers of the object
BufferNames ==
    {"srcCn", "jointCn", "etaFull", "w_k", "Psi_splat_small", "Psi_splat_0_small",
     "sum_w_ki_Psi_blur_", "sum_w_ki_Psi_blur_0_", "minDistToManifoldSquared"}

Held(o) == {b \in BufferNames : o[b] # << >>}

\* C8 as stated: once a filter call has returned, the object holds none of
\* its per-call buffers
C8_NothingHeldAfterFilter ==
    (pc = "idle" /\ last = "ok") => Held(obj) = {}

\* C8 amended: initBuffers (with initSrcAndJoint) creates the channels, w_k,
\* the splat buffers and the accumulators, and minDistToManifoldSquared when
\* adjust_outliers is set; etaFull is created by the root node; filter() does
\* not call collectGarbage, so after it has returned the object still holds
\* them all, until the caller calls collectGarbage, which releases every one
C8_BuffersHeldUntilCollectGarbage ==
    /\ (pc = "run" /\ visited = << >>) =>
          /\ (BufferNames \ {"etaFull", "minDistToManifoldSquared"}) \subseteq Held(obj)
          /\ cfg.adjust_outliers => "minDistToManifoldSquared" \in Held(obj)
          /\ ncalls = 1 => "etaFull" \notin Held(obj)
    /\ (InCall /\ visited # << >>) => "etaFull" \in Held(obj)
    /\ (pc = "idle" /\ last = "ok") =>
          /\ (BufferNames \ {"minDistToManifoldSquared"}) \subseteq Held(obj)
          /\ args.cfg.adjust_outliers => "minDistToManifoldSquared" \in Held(obj)
    /\ (pc = "idle" /\ last = "collected") => Held(obj) = {}

\* the caller has called collectGarbage after a filter call that wrote dst
C8_CollectedAfterFilter ==
    /\ pc = "idle"
    /\ last = "collected"
    /\ ncalls >= 1
    /\ dst # NoDst
    /\ Held(obj) = {}

\* the number of eta vectors and cluster masks alive: the locals of filter()
\* and of the frames on the stack
Live(b) == IF b = << >> THEN 0 ELSE 1

FrameLive(f) == Live(f.eta_minus) + Live(f.cluster_minus) + Live(f.eta_plus) + Live(f.cluster_plus)

LiveBuffers == Live(eta0) + Live(cluster0) + SumTo(LAMBDA k : FrameLive(stack[k]), Len(stack))

IsPrefix(p, q) == Len(p) <= Len(q) /\ SubSeq(q, 1, Len(p)) = p

PlusChildStarts == pc = "run" /\ Len(stack) >= 2 /\ Top.side = "plus" /\ Top.pc = "body"

RECURSIVE PreOrder(_, _, _)
PreOrder(path, level, height) ==
    IF level < height
    THEN << path >> \o PreOrder(Append(path, "minus"), level + 1, height)
                    \o PreOrder(Append(path, "plus"), level + 1, height)
    ELSE << path >>

\* C10: the nodes are processed in pre-order with the minus child first, a
\* node before its descendants and the minus subtree before the plus one;
\* the RNG, seeded from the centre pixel of the first joint channel, is drawn
\* from once at every node below the tree height when useRNG is set, in that
\* order, and nowhere else
C10_VisitOrder ==
    InCall =>
        /\ Len(visited) <= Len(PreOrder(<< >>, 1, obj.curTreeHeight))
        /\ \A i \in 1..Len(visited) : visited[i].path = PreOrder(<< >>, 1, obj.curTreeHeight)[i]
        /\ \A i \in 1..Len(visited) :
              /\ visited[i].rnd_in =
                    IF i = 1
                    THEN RngSeed(obj.jointCn[1][(obj.srcSize[2] \div 2) + 1][(obj.srcSize[1] \div 2) + 1])
                    ELSE visited[i - 1].rnd_out
              /\ visited[i].fills = IF visited[i].split /\ cfg.useRNG THEN 1 ELSE 0
              /\ visited[i].rnd_out =
                    IF visited[i].split /\ cfg.useRNG
                    THEN RngFill(visited[i].rnd_in, obj.jointCnNum).state
                    ELSE visited[i].rnd_in
        /\ Len(visited) > 0 => obj.rnd = visited[Len(visited)].rnd_out

\* a tree of height 3 was traversed with the RNG, and the three draws moved
\* its state each time
C10_ThreeDraws ==
    /\ pc = "gather"
    /\ cfg.useRNG
    /\ Len(visited) = 7
    /\ visited[1].rnd_out # visited[1].rnd_in
    /\ visited[2].rnd_out # visited[2].rnd_in
    /\ visited[5].rnd_out # visited[5].rnd_in
    /\ visited[7].rnd_out = visited[5].rnd_out

\* the residuals jointCn - etaFull a node clusters on
Residuals(v) == [c \in 1..obj.jointCnNum |-> PSub(obj.jointCn[c], v.etaFull[c])]

\* the vector the power iteration of a node leaves in dst before it is
\* divided by its norm
RawEigenVector(v) ==
    PowerIterations(Residuals(v), v.cluster,
                    InitVec(cfg.useRNG, v.rnd_in, obj.jointCnNum).vec,
                    PixelSeq(obj.srcSize), cfg.num_pca_iterations)

\* norm(v) = 0
ZeroNorm(v) == \A c \in 1..Len(v) : v[c] = 0

\* no pixel of the cluster has a non-zero residual (so also: the mask is empty)
NoResidual(v) ==
    \A y \in Rows, x \in Cols :
        v.cluster[y][x] # 0 => \A c \in 1..obj.jointCnNum : Residuals(v)[c][y][x] = 0

\* C11: at a node that splits, when the residuals of the cluster are all zero
\* or the cluster is empty the power iteration ends with a vector of norm
\* zero; whenever it does, the eigenvector is the zero vector, every
\* projection is 0, cluster_plus is the whole parent cluster and
\* cluster_minus is empty; and at every split each pixel of the parent is in
\* one of the two children
C11_DegenerateEigenVector ==
    InCall =>
        \A i \in 1..Len(visited) :
            visited[i].split =>
                /\ NoResidual(visited[i]) => ZeroNorm(RawEigenVector(visited[i]))
                /\ ZeroNorm(RawEigenVector(visited[i])) =>
                      /\ visited[i].eigenVec = [c \in 1..obj.jointCnNum |-> 0]
                      /\ \A y \in Rows, x \in Cols :
                            /\ visited[i].difOreientation[y][x] = 0
                            /\ visited[i].cluster_minus[y][x] = 0
                            /\ (visited[i].cluster_plus[y][x] # 0) <=> (visited[i].cluster[y][x] # 0)
                /\ \A y \in Rows, x \in Cols :
                      visited[i].cluster[y][x] # 0
                         => (visited[i].cluster_minus[y][x] # 0 \/ visited[i].cluster_plus[y][x] # 0)

\* a call in which the root, with its all-ones cluster, had a zero-norm
\* vector and a later node split an empty cluster: both collapsed onto
\* cluster_plus
C11_CollapsedSplits ==
    /\ InCall
    /\ Len(visited) > 1
    /\ visited[1].split
    /\ ZeroNorm(RawEigenVector(visited[1]))
    /\ visited[1].cluster_plus = FullMask(obj.srcSize)
    /\ \E i \in 2..Len(visited) :
          /\ visited[i].split
          /\ \A y \in Rows, x \in Cols : visited[i].cluster[y][x] = 0
          /\ ZeroNorm(RawEigenVector(visited[i]))
          /\ visited[i].cluster_plus = visited[i].cluster

\* the object with w_k, etaFull and the RNG state as node v found or wrote
\* them: what its clustering and its computeEta calls are to read
WithScratch(v) == [obj EXCEPT !.w_k = v.w_k, !.etaFull = v.etaFull, !.rnd = v.rnd_in]

\* the index in the log of the parent of the node logged at i
ParentIndex(i) ==
    CHOOSE k \in 1..i :
        visited[k].path = SubSeq(visited[i].path, 1, Len(visited[i].path) - 1)

\* the eta and the cluster the parent built for the node logged at i
BuiltEta(i) ==
    IF visited[i].path[Len(visited[i].path)] = "minus"
    THEN visited[ParentIndex(i)].eta_minus ELSE visited[ParentIndex(i)].eta_plus

BuiltCluster(i) ==
    IF visited[i].path[Len(visited[i].path)] = "minus"
    THEN visited[ParentIndex(i)].cluster_minus ELSE visited[ParentIndex(i)].cluster_plus

\* (a) of C12 at node v: etaFull and w_k come from the node's own eta, the
\* splat planes are built with that w_k and the slicing multiplies by it
OwnWeights(v) ==
    LET full == SizeOf(v.eta[1]) = obj.srcSize
        etaSmall == IF full THEN downsampleAll(cfg, v.eta) ELSE v.eta
        blur == RFFilterPass(etaSmall,
                             [si \in 1..obj.srcCnNum |-> downsample(cfg, PMul(obj.srcCn[si], v.w_k))],
                             downsample(cfg, v.w_k),
                             cfg.sigma_s, SigmaSDen * getResizeRatio(cfg), obj.sigma_r_over_sqrt_2)
    IN  /\ v.etaFull = (IF full THEN v.eta ELSE upsampleAll(obj.srcSize, v.eta))
        /\ v.w_k = compute_w_k(obj, cfg, v.etaFull, v.level).w_k
        /\ v.Psi_blur = blur.Psi
        /\ v.Psi_blur_0 = blur.Psi_0
        /\ v.term_0 = PMul(upsample(obj.srcSize, v.Psi_blur_0), v.w_k)
        /\ v.term = [i \in 1..obj.srcCnNum |-> PMul(upsample(obj.srcSize, v.Psi_blur[i]), v.w_k)]

\* (b) of C12 at node v: the children's clusters and etas are those computed
\* from the w_k and etaFull this node wrote
OwnSplit(v) ==
    LET cl == computeClusters(WithScratch(v), cfg, v.cluster)
        teta == PMap1(v.w_k, LAMBDA w : FxOne - w)
    IN  /\ v.cluster_minus = cl.cluster_minus
        /\ v.cluster_plus = cl.cluster_plus
        /\ v.eta_minus = computeEta(WithScratch(v), cfg, teta, v.cluster_minus)
        /\ v.eta_plus = computeEta(WithScratch(v), cfg, teta, v.cluster_plus)

\* the node logged last has just left its body: its frame is on top of the
\* stack, before its first recursive call or, for a leaf, before its return
JustProcessed ==
    /\ pc = "run"
    /\ Len(stack) > 0
    /\ Len(visited) > 0
    /\ Top.pc \in {"recurse1", "return"}
    /\ Top.path = visited[Len(visited)].path

\* C12: at every node, when it has left its body, the w_k multiplied in
\* during slicing is the w_k the node computed from its own eta for
\* splatting, and the clusters and the etas of its children are computed
\* from the w_k and etaFull the node itself wrote; and a child, whenever it
\* runs, is given exactly the eta and the cluster its parent built then,
\* whatever the nodes processed in between (siblings and their descendants)
\* have written to w_k and etaFull
C12_ScratchNeverStale ==
    /\ JustProcessed =>
          /\ OwnWeights(visited[Len(visited)])
          /\ visited[Len(visited)].split => OwnSplit(visited[Len(visited)])
          /\ obj.w_k = visited[Len(visited)].w_k
          /\ obj.etaFull = visited[Len(visited)].etaFull
    /\ InCall =>
          \A i \in 1..Len(visited) :
              visited[i].level > 1 =>
                  /\ visited[i].eta = BuiltEta(i)
                  /\ visited[i].cluster = BuiltCluster(i)

\* a plus child ran after the subtree of its minus sibling had overwritten
\* both buffers: the node logged just before it left another w_k and another
\* etaFull than its parent, and the parent's split was a proper one
C12_PlusChildAfterOverwrite ==
    /\ InCall
    /\ \E i \in 3..Len(visited) :
          /\ visited[i].path[Len(visited[i].path)] = "plus"
          /\ ParentIndex(i) < i - 1
          /\ visited[i - 1].w_k # visited[ParentIndex(i)].w_k
          /\ visited[i - 1].etaFull # visited[ParentIndex(i)].etaFull
          /\ visited[i].w_k # visited[i - 1].w_k
          /\ \E y \in Rows, x \in Cols : visited[ParentIndex(i)].cluster_minus[y][x] # 0
          /\ \E y \in Rows, x \in Cols : visited[i].cluster[y][x] # 0

====
